---- MODULE Spec2Model ----
(***************************************************************************)
(* A model of posterior_meta_replay/probabilistic/prob_utils.py and of the *)
(* `conditions` post-processing of the two hyperparameter-search configs.  *)
(*                                                                         *)
(* A tensor is a finite sequence of fixed-point numbers (an integer v      *)
(* stands for the real v / Scale); its shape is its length, and a tensor   *)
(* of one element broadcasts against any other.  A list of tensors is a    *)
(* sequence of tensors.  Python indices are 0-based, TLA+ ones 1-based:    *)
(* mean[i] of the source is mean[i + 1] here.  In square_wasserstein_2,    *)
(* whose result hangs on how each operation rounds, the numbers are binary *)
(* floating-point numbers instead (see Precision).                         *)
(*                                                                         *)
(* A random number generator is its position in a stream of variates; a    *)
(* draw of n numbers returns the next n variates and advances the position.*)
(* There are two generators: the torch.Generator object a caller may pass  *)
(* (rng.gen), and torch's global default generator (rng.glob), which torch *)
(* uses whenever no generator is handed to a sampling routine.             *)
(***************************************************************************)
EXTENDS Integers, Sequences, FiniteSets, TLC

\* ------------------------------------------------------------------ bounds
MaxLen == 2        \* longest list of tensors
GenPeriod == 4     \* number of distinct generator positions
MaxCe == 2         \* largest ce_sample_size

\* ----------------------------------------------------- fixed-point numbers
Scale == 10

Max(a, b) == IF a >= b THEN a ELSE b
Min(a, b) == IF a <= b THEN a ELSE b

\* round(Scale * exp(x / Scale)) for x = -60 .. 40
ExpTab ==
  <<  0, 0, 0, 0, 0, 0, 0, 0, 0, 0, 0, 0, 0, 0, 0, 0, 0, 0, 0, 0, 0, 0, 0,
      0, 0, 0, 0, 0, 0, 0, 0, 1, 1, 1, 1, 1, 1, 1, 1, 1, 1, 1, 2, 2, 2, 2,
      2, 3, 3, 3, 4, 4, 4, 5, 5, 6, 7, 7, 8, 9, 10, 11, 12, 13, 15, 16, 18,
      20, 22, 25, 27, 30, 33, 37, 41, 45, 50, 55, 60, 67, 74, 82, 90, 100,
      110, 122, 135, 149, 164, 182, 201, 222, 245, 271, 300, 331, 366, 404,
      447, 494, 546 >>

\* round(Scale * ln(n / Scale)) for n = 1 .. 100
LogTab ==
  << -23, -16, -12, -9, -7, -5, -4, -2, -1, 0, 1, 2, 3, 3, 4, 5, 5, 6, 6,
      7, 7, 8, 8, 9, 9, 10, 10, 10, 11, 11, 11, 12, 12, 12, 13, 13, 13, 13,
      14, 14, 14, 14, 15, 15, 15, 15, 15, 16, 16, 16, 16, 16, 17, 17, 17,
      17, 17, 18, 18, 18, 18, 18, 18, 19, 19, 19, 19, 19, 19, 19, 20, 20,
      20, 20, 20, 20, 20, 21, 21, 21, 21, 21, 21, 21, 21, 22, 22, 22, 22,
      22, 22, 22, 22, 22, 23, 23, 23, 23, 23, 23 >>

\* torch.exp on one element.
Exp(x) == ExpTab[Max(-60, Min(40, x)) + 61]

\* torch.log on one element (the smallest table entry stands for log 0).
Log(n) == LogTab[Max(1, Min(100, n))]

\* a * b and a / b on one element.
FMul(a, b) == (a * b) \div Scale
FDiv(a, b) == (a * Scale) \div b

RECURSIVE SqrtFrom(_, _)
SqrtFrom(n, r) == IF (r + 1) * (r + 1) > n THEN r ELSE SqrtFrom(n, r + 1)

RECURSIVE SumSeq(_)
SumSeq(s) == IF s = << >> THEN 0 ELSE Head(s) + SumSeq(Tail(s))

\* ---------------------------------------------------------------- tensors
Broadcastable(a, b) == Len(a) = Len(b) \/ Len(a) = 1 \/ Len(b) = 1
At(a, j) == IF Len(a) = 1 THEN a[1] ELSE a[j]

\* a + b, a * b with broadcasting
TAdd(a, b) == [j \in 1..Max(Len(a), Len(b)) |-> At(a, j) + At(b, j)]
TMul(a, b) == [j \in 1..Max(Len(a), Len(b)) |-> FMul(At(a, j), At(b, j))]
\* tensor times / divided by a 0-dim tensor
TMulS(a, r) == [j \in 1..Len(a) |-> FMul(a[j], r)]
TDivS(a, s) == [j \in 1..Len(a) |-> FDiv(a[j], s)]

\* torch.norm(eps, p=2)
Norm(eps) == SqrtFrom(SumSeq([j \in 1..Len(eps) |-> eps[j] * eps[j]]), 0)

\* torch.exp(0.5 * rho[i])
ExpHalf(t) == [j \in 1..Len(t) |-> Exp(t[j] \div 2)]
\* F.softplus(rho[i]) = log(1 + exp(rho[i]))
Softplus(t) == [j \in 1..Len(t) |-> Log(Scale + Exp(t[j]))]
\* 2 * torch.log(std)
TwoLog(t) == [j \in 1..Len(t) |-> 2 * Log(t[j])]
\* std ** 2
Square(t) == [j \in 1..Len(t) |-> FMul(t[j], t[j])]

\* ----------------------------------------------------- random generators
\* The variate at stream position p; never zero.
NormalAt(p) ==
  LET k == (3 * p + 1) % 7
  IN  IF k >= 3 THEN (k - 2) * 5 ELSE (k - 3) * 5

\* a variant that never looks at the generator it is handed and always
\* draws from the global default generator
TorchNormalGlobal(rng, generator, n) ==
  [vals |-> [j \in 1..n |-> NormalAt((rng.glob + j - 1) % GenPeriod)],
   rng  |-> [rng EXCEPT !.glob = (rng.glob + n) % GenPeriod]]

\* torch.normal(..., generator=generator) for n elements: the passed
\* generator when there is one, the global default generator otherwise.
TorchNormal(rng, generator, n) ==
  LET s == IF generator = "None" THEN rng.glob ELSE rng.gen
      vals == [j \in 1..n |-> NormalAt((s + j - 1) % GenPeriod)]
      s2 == (s + n) % GenPeriod
  IN  [vals |-> vals,
       rng  |-> IF generator = "None" THEN [rng EXCEPT !.glob = s2]
                                      ELSE [rng EXCEPT !.gen = s2]]

Src(generator) == IF generator = "None" THEN "glob" ELSE "gen"

\* The record of one draw: which tensor index asked for it, what for, from
\* which generator, and the values obtained.
DrawRec(kind, i, generator, vals) ==
  [kind |-> kind, idx |-> i, src |-> Src(generator), vals |-> vals]

\* What a call produces: an exception name or "none", the returned value,
\* the generators after the call and the draws it made, in order.
Outcome(exc, val, rng, log) == [exc |-> exc, val |-> val, rng |-> rng, log |-> log]

\* ---------------------------------------------- decode_and_sample_diag_gauss
\* The loop body for Python index i (0-based), from accumulator acc.
RECURSIVE DecodeAndSampleLoop(_, _, _, _, _, _, _)
DecodeAndSampleLoop(mean, rho, logvar_enc, generator, is_radial, i, acc) ==
  IF i >= Len(mean) THEN acc
  ELSE
    LET std == IF logvar_enc THEN ExpHalf(rho[i + 1]) ELSE Softplus(rho[i + 1])
        d1  == TorchNormal(acc.rng, generator, Len(std))
        eps == d1.vals
        l1  == Append(acc.log, DrawRec("eps", i, generator, eps))
    IN  IF ~is_radial
        THEN IF ~Broadcastable(mean[i + 1], std)
             THEN Outcome("RuntimeError", << >>, d1.rng, l1)
             ELSE DecodeAndSampleLoop(mean, rho, logvar_enc, generator,
                    is_radial, i + 1,
                    Outcome("none",
                            Append(acc.val, TAdd(mean[i + 1], TMul(eps, std))),
                            d1.rng, l1))
        ELSE
          LET d2 == TorchNormal(d1.rng, generator, 1)
              r  == d2.vals[1]
              l2 == Append(l1, DrawRec("r", i, generator, d2.vals))
          IN  IF ~Broadcastable(mean[i + 1], std)
              THEN Outcome("RuntimeError", << >>, d2.rng, l2)
              ELSE DecodeAndSampleLoop(mean, rho, logvar_enc, generator,
                     is_radial, i + 1,
                     Outcome("none",
                             Append(acc.val,
                                    TAdd(mean[i + 1],
                                         TDivS(TMul(TMulS(std, r), eps),
                                               Norm(eps)))),
                             d2.rng, l2))

\* a variant whose assertion only rejects a mean list longer than rho
decode_and_sample_diag_gauss_weak_assert(mean, rho, logvar_enc, generator, is_radial, rng) ==
  IF Len(mean) > Len(rho)
  THEN Outcome("AssertionError", << >>, rng, << >>)
  ELSE DecodeAndSampleLoop(mean, rho, logvar_enc, generator, is_radial, 0,
                           Outcome("none", << >>, rng, << >>))

decode_and_sample_diag_gauss(mean, rho, logvar_enc, generator, is_radial, rng) ==
  IF Len(mean) # Len(rho)
  THEN Outcome("AssertionError", << >>, rng, << >>)
  ELSE DecodeAndSampleLoop(mean, rho, logvar_enc, generator, is_radial, 0,
                           Outcome("none", << >>, rng, << >>))

\* ------------------------------------------------------- decode_diag_gauss
\* The three lists the loop builds.
DecodeLists(rho, logvar_enc, return_var) ==
  [ret_std    |-> [k \in 1..Len(rho) |->
                     IF logvar_enc THEN ExpHalf(rho[k]) ELSE Softplus(rho[k])],
   ret_logvar |-> [k \in 1..Len(rho) |->
                     IF logvar_enc THEN rho[k] ELSE TwoLog(Softplus(rho[k]))],
   ret_var    |-> IF return_var
                  THEN [k \in 1..Len(rho) |->
                          Square(IF logvar_enc THEN ExpHalf(rho[k])
                                               ELSE Softplus(rho[k]))]
                  ELSE << >>]

\* The returned Python value: a tuple of lists, or (no flag set) the bare
\* list ret_std.  kind tells which; items are the tuple's elements, list
\* the bare list.
\* a variant that returns the log-variance before the variance when both
\* are asked for
decode_diag_gauss_swapped(rho, logvar_enc, return_var, return_logvar) ==
  LET l == DecodeLists(rho, logvar_enc, return_var)
  IN  IF return_var /\ return_logvar
      THEN [kind |-> "tuple", items |-> <<l.ret_std, l.ret_logvar, l.ret_var>>,
            list |-> << >>]
      ELSE IF return_var
      THEN [kind |-> "tuple", items |-> <<l.ret_std, l.ret_var>>, list |-> << >>]
      ELSE IF return_logvar
      THEN [kind |-> "tuple", items |-> <<l.ret_std, l.ret_logvar>>, list |-> << >>]
      ELSE [kind |-> "list", items |-> << >>, list |-> l.ret_std]

\* a variant that always decodes with the softplus, whatever logvar_enc says
decode_diag_gauss_softplus_only(rho, logvar_enc, return_var, return_logvar) ==
  LET l == DecodeLists(rho, FALSE, return_var)
  IN  IF return_var /\ return_logvar
      THEN [kind |-> "tuple", items |-> <<l.ret_std, l.ret_var, l.ret_logvar>>,
            list |-> << >>]
      ELSE IF return_var
      THEN [kind |-> "tuple", items |-> <<l.ret_std, l.ret_var>>, list |-> << >>]
      ELSE IF return_logvar
      THEN [kind |-> "tuple", items |-> <<l.ret_std, l.ret_logvar>>, list |-> << >>]
      ELSE [kind |-> "list", items |-> << >>, list |-> l.ret_std]

decode_diag_gauss(rho, logvar_enc, return_var, return_logvar) ==
  LET l == DecodeLists(rho, logvar_enc, return_var)
  IN  IF return_var /\ return_logvar
      THEN [kind |-> "tuple", items |-> <<l.ret_std, l.ret_var, l.ret_logvar>>,
            list |-> << >>]
      ELSE IF return_var
      THEN [kind |-> "tuple", items |-> <<l.ret_std, l.ret_var>>, list |-> << >>]
      ELSE IF return_logvar
      THEN [kind |-> "tuple", items |-> <<l.ret_std, l.ret_logvar>>, list |-> << >>]
      ELSE [kind |-> "list", items |-> << >>, list |-> l.ret_std]

\* -------------------------------------------------------- sample_diag_gauss
RECURSIVE SampleLoop(_, _, _, _, _, _)
SampleLoop(mean, std, generator, is_radial, i, acc) ==
  IF i >= Len(mean) THEN acc
  ELSE
    LET m   == mean[i + 1]
        d1  == TorchNormal(acc.rng, generator, Len(m))
        eps == d1.vals
        l1  == Append(acc.log, DrawRec("eps", i, generator, eps))
    IN  IF ~is_radial
        THEN IF i >= Len(std)
             THEN Outcome("IndexError", << >>, d1.rng, l1)
             ELSE IF ~Broadcastable(m, std[i + 1])
             THEN Outcome("RuntimeError", << >>, d1.rng, l1)
             ELSE SampleLoop(mean, std, generator, is_radial, i + 1,
                    Outcome("none",
                            Append(acc.val, TAdd(m, TMul(eps, std[i + 1]))),
                            d1.rng, l1))
        ELSE
          LET d2 == TorchNormal(d1.rng, generator, 1)
              r  == d2.vals[1]
              l2 == Append(l1, DrawRec("r", i, generator, d2.vals))
          IN  IF i >= Len(std)
              THEN Outcome("IndexError", << >>, d2.rng, l2)
              ELSE IF ~Broadcastable(m, std[i + 1])
              THEN Outcome("RuntimeError", << >>, d2.rng, l2)
              ELSE SampleLoop(mean, std, generator, is_radial, i + 1,
                     Outcome("none",
                             Append(acc.val,
                                    TAdd(m, TDivS(TMul(TMulS(std[i + 1], r), eps),
                                                  Norm(eps)))),
                             d2.rng, l2))

\* a variant that draws the radius r once, before the loop, and uses it for
\* every parameter tensor
RECURSIVE SampleLoopSharedR(_, _, _, _, _, _)
SampleLoopSharedR(mean, std, generator, r, i, acc) ==
  IF i >= Len(mean) THEN acc
  ELSE
    LET m   == mean[i + 1]
        d1  == TorchNormal(acc.rng, generator, Len(m))
        eps == d1.vals
        l1  == Append(acc.log, DrawRec("eps", i, generator, eps))
    IN  IF i >= Len(std)
        THEN Outcome("IndexError", << >>, d1.rng, l1)
        ELSE IF ~Broadcastable(m, std[i + 1])
        THEN Outcome("RuntimeError", << >>, d1.rng, l1)
        ELSE SampleLoopSharedR(mean, std, generator, r, i + 1,
               Outcome("none",
                       Append(acc.val,
                              TAdd(m, TDivS(TMul(TMulS(std[i + 1], r), eps),
                                            Norm(eps)))),
                       d1.rng, l1))

sample_diag_gauss_shared_r(mean, std, generator, is_radial, rng) ==
  IF ~is_radial
  THEN SampleLoop(mean, std, generator, is_radial, 0,
                  Outcome("none", << >>, rng, << >>))
  ELSE LET d0 == TorchNormal(rng, generator, 1)
       IN  SampleLoopSharedR(mean, std, generator, d0.vals[1], 0,
             Outcome("none", << >>, d0.rng,
                     <<DrawRec("r", 0, generator, d0.vals)>>))

sample_diag_gauss(mean, std, generator, is_radial, rng) ==
  SampleLoop(mean, std, generator, is_radial, 0,
             Outcome("none", << >>, rng, << >>))

\* ------------------------------------------- kl_radial_bnn_with_diag_gauss
\* Normal(loc, scale).log_prob(value) on one element:
\* -(value - loc)^2 / (2 scale^2) - log(scale) - log(sqrt(2 pi))
LogSqrt2Pi == 9
LogProb1(x, m, s) ==
  (0 - FDiv(FMul(x - m, x - m), 2 * FMul(s, s))) - Log(s) - LogSqrt2Pi

\* p_b.log_prob(sample[i]).sum() with broadcasting of loc, scale and value
LogProbSum(x, m, s) ==
  LET n == Max(Len(x), Max(Len(m), Len(s)))
  IN  SumSeq([j \in 1..n |-> LogProb1(At(x, j), At(m, j), At(s, j))])

\* torch.log(torch.cat([t.view(-1) for t in std_a])).sum()
RECURSIVE SumLog(_)
SumLog(std) ==
  IF std = << >> THEN 0
  ELSE SumSeq([j \in 1..Len(Head(std)) |-> Log(Head(std)[j])]) + SumLog(Tail(std))

\* the inner loop "for i in range(len(mean_b))" over one sample; ce is the
\* cross_entropy accumulated so far, or "IndexError" / "RuntimeError"
RECURSIVE CeInner(_, _, _, _, _)
CeInner(sample, mean_b, std_b, i, ce) ==
  IF i >= Len(mean_b) THEN [exc |-> "none", ce |-> ce]
  ELSE IF ~Broadcastable(mean_b[i + 1], std_b[i + 1])
  THEN [exc |-> "RuntimeError", ce |-> ce]
  ELSE IF i >= Len(sample)
  THEN [exc |-> "IndexError", ce |-> ce]
  ELSE IF ~(Broadcastable(sample[i + 1], mean_b[i + 1])
            /\ Broadcastable(sample[i + 1], std_b[i + 1]))
  THEN [exc |-> "RuntimeError", ce |-> ce]
  ELSE CeInner(sample, mean_b, std_b, i + 1,
               ce + LogProbSum(sample[i + 1], mean_b[i + 1], std_b[i + 1]))

\* the outer loop "for n in range(ce_sample_size)"
RECURSIVE CeOuter(_, _, _, _, _, _, _, _)
CeOuter(mean_a, std_a, mean_b, std_b, ce_sample_size, generator, n, acc) ==
  IF n >= ce_sample_size THEN acc
  ELSE
    LET s == sample_diag_gauss(mean_a, std_a, generator, TRUE, acc.rng)
        l == acc.log \o s.log
    IN  IF s.exc # "none" THEN Outcome(s.exc, 0, s.rng, l)
        ELSE LET c == CeInner(s.val, mean_b, std_b, 0, acc.val)
             IN  IF c.exc # "none" THEN Outcome(c.exc, 0, s.rng, l)
                 ELSE CeOuter(mean_a, std_a, mean_b, std_b, ce_sample_size,
                              generator, n + 1,
                              Outcome("none", c.ce, s.rng, l))

\* a variant that does not average the cross-entropy over the samples
kl_radial_bnn_with_diag_gauss_no_average(mean_a, std_a, mean_b, std_b, ce_sample_size, generator, rng) ==
  IF std_a = << >>
  THEN Outcome("RuntimeError", 0, rng, << >>)
  ELSE
    LET entropy == 0 - SumLog(std_a)
        c == CeOuter(mean_a, std_a, mean_b, std_b, ce_sample_size, generator,
                     0, Outcome("none", 0, rng, << >>))
    IN  IF c.exc # "none" THEN c
        ELSE IF ce_sample_size = 0
        THEN Outcome("ZeroDivisionError", 0, c.rng, c.log)
        ELSE Outcome("none", entropy - c.val, c.rng, c.log)

kl_radial_bnn_with_diag_gauss(mean_a, std_a, mean_b, std_b, ce_sample_size, generator, rng) ==
  IF std_a = << >>
  THEN Outcome("RuntimeError", 0, rng, << >>)   \* torch.cat of an empty list
  ELSE
    LET entropy == 0 - SumLog(std_a)
        c == CeOuter(mean_a, std_a, mean_b, std_b, ce_sample_size, generator,
                     0, Outcome("none", 0, rng, << >>))
    IN  IF c.exc # "none" THEN c
        ELSE IF ce_sample_size = 0
        THEN Outcome("ZeroDivisionError", 0, c.rng, c.log)
        ELSE Outcome("none", entropy - (c.val \div ce_sample_size), c.rng, c.log)

\* ------------------------------------------------- hypernetwork outputs
\* hnet_outputs[n:] and hnet_outputs[:n]
SliceFrom(l, n) == SubSeq(l, n + 1, Len(l))
SliceTo(l, n) == SubSeq(l, 1, n)

\* Normal(mu[i], std).rsample(): eps is drawn from the global generator
RECURSIVE HnetSampleLoop(_, _, _, _, _)
HnetSampleLoop(mu, logvar, n, i, acc) ==
  IF i >= n THEN acc
  ELSE
    LET std == ExpHalf(logvar[i + 1])
    IN  IF ~Broadcastable(mu[i + 1], std)
        THEN Outcome("RuntimeError", << >>, acc.rng, acc.log)
        ELSE
          LET d == TorchNormal(acc.rng, "None", Max(Len(mu[i + 1]), Len(std)))
          IN  HnetSampleLoop(mu, logvar, n, i + 1,
                Outcome("none",
                        Append(acc.val, TAdd(mu[i + 1], TMul(d.vals, std))),
                        d.rng,
                        Append(acc.log, DrawRec("eps", i, "None", d.vals))))

sample_diag_gaus_from_hnet(hnet_outputs, rng) ==
  IF Len(hnet_outputs) % 2 # 0
  THEN Outcome("AssertionError", << >>, rng, << >>)
  ELSE LET n == Len(hnet_outputs) \div 2
           mu == SliceFrom(hnet_outputs, n)
           logvar == SliceTo(hnet_outputs, n)
       IN  HnetSampleLoop(mu, logvar, n, 0, Outcome("none", << >>, rng, << >>))

\* a variant that decodes std from the means instead of the log-variances
extract_mean_std_from_mean(hnet_outputs, return_logvar, rng) ==
  IF Len(hnet_outputs) % 2 # 0
  THEN Outcome("AssertionError", << >>, rng, << >>)
  ELSE LET n == Len(hnet_outputs) \div 2
           mean == SliceFrom(hnet_outputs, n)
           logvar == SliceTo(hnet_outputs, n)
           std == [k \in 1..n |-> ExpHalf(mean[k])]
       IN  IF return_logvar
           THEN Outcome("none", <<mean, std, logvar>>, rng, << >>)
           ELSE Outcome("none", <<mean, std>>, rng, << >>)

\* The returned tuple (mean, std) or (mean, std, logvar).
extract_mean_std(hnet_outputs, return_logvar, rng) ==
  IF Len(hnet_outputs) % 2 # 0
  THEN Outcome("AssertionError", << >>, rng, << >>)
  ELSE LET n == Len(hnet_outputs) \div 2
           mean == SliceFrom(hnet_outputs, n)
           logvar == SliceTo(hnet_outputs, n)
           std == [k \in 1..n |-> ExpHalf(logvar[k])]
       IN  IF return_logvar
           THEN Outcome("none", <<mean, std, logvar>>, rng, << >>)
           ELSE Outcome("none", <<mean, std>>, rng, << >>)

\* ------------------------------------------------------ Gumbel sampling
\* eps = 1e-20, below the resolution of the fixed-point numbers
Eps == 0

\* The uniform variate at stream position p, strictly between 0 and 1.
UniformAt(p) == ((3 * p + 1) % 7) + 2

\* torch.rand(size) and torch.distributions.Uniform(0, 1).sample(shape):
\* neither takes a generator; both draw from the global default generator.
TorchRand(rng, n) ==
  [vals |-> [j \in 1..n |-> UniformAt((rng.glob + j - 1) % GenPeriod)],
   rng  |-> [rng EXCEPT !.glob = (rng.glob + n) % GenPeriod]]

\* -torch.log(-torch.log(u + eps) + eps) on one element
Gumbel1(u) == 0 - Log((0 - Log(u + Eps)) + Eps)

RECURSIVE MaxSeq(_)
MaxSeq(s) == IF Len(s) = 1 THEN s[1] ELSE Max(Head(s), MaxSeq(Tail(s)))

\* F.softmax over a vector
Softmax(v) ==
  IF v = << >> THEN << >>
  ELSE LET e == [j \in 1..Len(v) |-> Exp(v[j] - MaxSeq(v))]
       IN  [j \in 1..Len(v) |-> FDiv(e[j], SumSeq(e))]

\* F.softmax(1.0 / tau * (torch.log(F.softmax(x)) + gumbel_sample))
GumbelSoftmax(x, g, tau) ==
  LET sm == Softmax(x)
  IN  Softmax([j \in 1..Len(x) |-> FMul(FDiv(Scale, tau), Log(sm[j]) + g[j])])

sample_gumbel_softmax(x, tau, rng) ==
  LET d == TorchRand(rng, Len(x))
      g == [j \in 1..Len(x) |-> Gumbel1(d.vals[j])]
  IN  Outcome("none", GumbelSoftmax(x, g, tau), d.rng,
              <<[kind |-> "uniform", idx |-> 0, src |-> "glob", vals |-> d.vals]>>)

\* A tensor of shape (K, gauss_mixture, d_in, d_out) is a sequence over k of
\* sequences over the components g of vectors of d_in * d_out elements; the
\* position of element (k, g, j) in a flat draw of K * G * d numbers:
Flat(k, g, j, G, d) == ((k - 1) * G + (g - 1)) * d + j

\* A stacked tensor argument (components of one shape)
UniformShape(l) == \A k \in 1..Len(l) : Len(l[k]) = Len(l[1])

\* sample_gumbel: returns from inside the first loop iteration; torch.rand
\* is called without the generator.
sample_gumbel(mean, rho, logvar_enc, coef, tau, gauss_mixture, K, d, is_bias, generator, is_radial, rng) ==
  IF ~(Len(mean) = Len(rho) /\ Len(mean) = Len(coef))
  THEN Outcome("AssertionError", << >>, rng, << >>)
  ELSE IF Len(mean) = 0
  THEN Outcome("none", << >>, rng, << >>)
  ELSE
    LET G  == gauss_mixture
        dr == TorchRand(rng, K * G * d)
        gs == [k \in 1..K |-> [g \in 1..G |-> [j \in 1..d |->
                 Gumbel1(dr.vals[Flat(k, g, j, G, d)])]]]
        \* softmax over dim 1 (the components) at position (k, j)
        col(k, j) == GumbelSoftmax([g \in 1..G |-> coef[g][j]],
                                   [g \in 1..G |-> gs[k][g][j]], tau)
    IN  Outcome("none",
                [k \in 1..K |-> [g \in 1..G |-> [j \in 1..d |-> col(k, j)[g]]]],
                dr.rng,
                <<[kind |-> "uniform", idx |-> 0, src |-> "glob",
                   vals |-> dr.vals]>>)

\* sample_gauss: mean is a stacked tensor.  The first iteration replaces
\* mean by its K-fold tiling, so a second iteration fails on mean[i]; with
\* is_bias the list built from mean cannot be unsqueezed.
sample_gauss(mean, rho, logvar_enc, coef, gauss_mixture, K, d, is_bias, generator, is_radial, rng) ==
  IF ~(Len(mean) = Len(rho) /\ Len(mean) = Len(coef))
  THEN Outcome("AssertionError", << >>, rng, << >>)
  ELSE IF Len(mean) = 0
  THEN Outcome("none", << >>, rng, << >>)
  ELSE
    LET G   == gauss_mixture
        std == IF logvar_enc THEN ExpHalf(rho[1]) ELSE Softplus(rho[1])
        d1  == TorchNormal(rng, generator, K * G * d)
        eps == d1.vals
        l1  == <<DrawRec("eps", 0, generator, eps)>>
    IN  IF is_bias
        THEN Outcome("TypeError", << >>, d1.rng, l1)
        ELSE IF ~is_radial
        THEN
          LET s0 == [k \in 1..K |-> [g \in 1..G |-> [j \in 1..d |->
                      mean[g][j] + FMul(eps[Flat(k, g, j, G, d)], std[j])]]]
          IN  IF Len(mean) = 1
              THEN Outcome("none", <<s0>>, d1.rng, l1)
              ELSE LET e2 == TorchNormal(d1.rng, generator, K * G * d)
                   IN  Outcome("IndexError", << >>, e2.rng,
                               Append(l1, DrawRec("eps", 1, generator, e2.vals)))
        ELSE
          LET d2 == TorchNormal(d1.rng, generator, 1)
              r  == d2.vals[1]
              l2 == Append(l1, DrawRec("r", 0, generator, d2.vals))
              s0 == [k \in 1..K |-> [g \in 1..G |-> [j \in 1..d |->
                      mean[g][j]
                      + FDiv(FMul(FMul(std[j], r), eps[Flat(k, g, j, G, d)]),
                             Norm(eps))]]]
          IN  IF Len(mean) = 1
              THEN Outcome("none", <<s0>>, d2.rng, l2)
              ELSE LET e2 == TorchNormal(d2.rng, generator, K * G * d)
                       r2 == TorchNormal(e2.rng, generator, 1)
                   IN  Outcome("IndexError", << >>, r2.rng,
                               l2 \o <<DrawRec("eps", 1, generator, e2.vals),
                                       DrawRec("r", 1, generator, r2.vals)>>)

\* sample_from_gumbel_softmax_trick: sample_gauss, then a call of
\* sample_gumbel with one positional argument too few.
sample_from_gumbel_softmax_trick(mean, rho, coef, tau, gauss_mixture, K, d, is_bias, logvar_enc, generator, is_radial, rng) ==
  LET gs == sample_gauss(mean, rho, logvar_enc, coef, gauss_mixture, K, d,
                         is_bias, generator, is_radial, rng)
  IN  IF gs.exc # "none" THEN gs
      ELSE Outcome("TypeError", << >>, gs.rng, gs.log)

\* ------------------------------------------------- floating-point numbers
\* square_wasserstein_2 subtracts numbers that are nearly equal, so there the
\* rounding of every single operation matters.  Its tensors hold binary
\* floating-point numbers with a significand of Precision bits (24 in
\* torch.float32), every operation rounding its exact result to the nearest
\* such number, ties to the even significand.  A number is kept as an
\* integer count of the smallest positive number, 2^-FracBits; numbers below
\* 2^(Precision - 1) of these are subnormal.  The exponent range is wide
\* enough for the inputs used here: nothing overflows.
Precision == 4
FracBits == 6
\* the number 1.0
One == 2^FracBits

\* the distance between neighbouring floating-point numbers at q >= 0
RECURSIVE UlpOf(_)
UlpOf(q) == IF q < 2^Precision THEN 1 ELSE 2 * UlpOf(q \div 2)

\* the floating-point number nearest to num / den >= 0
RoundPos(num, den) ==
  LET q  == num \div den
      u  == UlpOf(q)
      lo == (q \div u) * u
      hi == lo + u
  IN  IF 2 * num < (lo + hi) * den THEN lo
      ELSE IF 2 * num > (lo + hi) * den THEN hi
      ELSE IF (lo \div u) % 2 = 0 THEN lo ELSE hi

\* the floating-point number nearest to num / den
Fl(num, den) == IF num >= 0 THEN RoundPos(num, den) ELSE 0 - RoundPos(0 - num, den)

\* a + b, a - b, a * b on floating-point numbers
FlAdd(a, b) == Fl(a + b, 1)
FlSub(a, b) == Fl(a - b, 1)
FlMul(a, b) == Fl(a * b, One)

\* torch.sqrt on one floating-point number a >= 0
FlSqrt(a) ==
  LET n  == a * One
      r  == SqrtFrom(n, 0)
      u  == UlpOf(r)
      lo == (r \div u) * u
      hi == lo + u
  IN  IF 4 * n < (lo + hi) * (lo + hi) THEN lo
      ELSE IF 4 * n > (lo + hi) * (lo + hi) THEN hi
      ELSE IF (lo \div u) % 2 = 0 THEN lo ELSE hi

\* the floating-point number nearest to exp(x / One) for x = -64 .. 64
FlExpTab ==
  << 24, 24, 24, 24, 26, 26, 26, 26, 26, 28, 28, 28, 28, 28, 30, 30, 30,
     30, 32, 32, 32, 32, 32, 32, 36, 36, 36, 36, 36, 36, 36, 40, 40, 40,
     40, 40, 40, 40, 44, 44, 44, 44, 44, 48, 48, 48, 48, 48, 48, 52, 52,
     52, 52, 52, 56, 56, 56, 56, 60, 60, 60, 60, 64, 64, 64, 64, 64, 64,
     72, 72, 72, 72, 72, 72, 72, 80, 80, 80, 80, 80, 80, 80, 88, 88, 88,
     88, 88, 88, 96, 96, 96, 96, 96, 104, 104, 104, 104, 104, 112, 112,
     112, 112, 112, 120, 120, 120, 120, 128, 128, 128, 128, 128, 128, 144,
     144, 144, 144, 144, 144, 144, 160, 160, 160, 160, 160, 160, 176, 176,
     176 >>

\* torch.Tensor.exp on one floating-point number
FlExp(x) == FlExpTab[x + One + 1]

\* torch.Tensor.sum on floating-point numbers, added from left to right
RECURSIVE FlSumFrom(_, _)
FlSumFrom(s, acc) == IF s = << >> THEN acc ELSE FlSumFrom(Tail(s), FlAdd(acc, Head(s)))

\* -------------------------------------------------- square_wasserstein_2
\* torch.cat([t.view(-1) for t in l]) of a non-empty list
RECURSIVE Cat(_)
Cat(l) == IF l = << >> THEN << >> ELSE Head(l) \o Cat(Tail(l))

\* torch.norm(mean_a_flat - mean_b_flat, p=2) ** 2
NormSquared(mean_a_flat, mean_b_flat) ==
  LET n == Max(Len(mean_a_flat), Len(mean_b_flat))
      d == [j \in 1..n |-> FlSub(At(mean_a_flat, j), At(mean_b_flat, j))]
      norm == FlSqrt(FlSumFrom([j \in 1..n |-> FlMul(d[j], d[j])], 0))
  IN  FlMul(norm, norm)

\* (var_a_flat + var_b_flat - 2 * torch.sqrt(var_a_flat * var_b_flat)).sum()
VarTermSum(var_a_flat, var_b_flat) ==
  LET n == Max(Len(var_a_flat), Len(var_b_flat))
  IN  FlSumFrom([j \in 1..n |->
                   FlSub(FlAdd(At(var_a_flat, j), At(var_b_flat, j)),
                         FlMul(2 * One,
                               FlSqrt(FlMul(At(var_a_flat, j), At(var_b_flat, j)))))],
                0)

square_wasserstein_2(mean_a, logvar_a, mean_b, logvar_b, rng) ==
  IF mean_a = << >> \/ logvar_a = << >> \/ mean_b = << >> \/ logvar_b = << >>
  THEN Outcome("RuntimeError", << >>, rng, << >>)
  ELSE
    LET mean_a_flat == Cat(mean_a)
        var_a_flat  == [j \in 1..Len(Cat(logvar_a)) |-> FlExp(Cat(logvar_a)[j])]
        mean_b_flat == Cat(mean_b)
        var_b_flat  == [j \in 1..Len(Cat(logvar_b)) |-> FlExp(Cat(logvar_b)[j])]
    IN  IF ~Broadcastable(mean_a_flat, mean_b_flat)
           \/ ~Broadcastable(var_a_flat, var_b_flat)
        THEN Outcome("RuntimeError", << >>, rng, << >>)
        ELSE Outcome("none",
                     FlAdd(NormSquared(mean_a_flat, mean_b_flat),
                           VarTermSum(var_a_flat, var_b_flat)),
                     rng, << >>)

\* ------------------------------------------------------------ compute_kl
\* the length that tensors of the lengths ls broadcast to, and whether they do
RECURSIVE BroadcastLen(_)
BroadcastLen(ls) == IF ls = << >> THEN 1 ELSE Max(Head(ls), BroadcastLen(Tail(ls)))
BroadcastAll(ls) == \A k \in 1..Len(ls) : ls[k] = 1 \/ ls[k] = BroadcastLen(ls)

\* 0.5 * x
Half(x) == FMul(5, x)

\* one element of trace_term + mean_term + det_term - 1
ComputeKlInner(m, ev, pm, pev, lamb, initial_prior_var) ==
  LET trace_term == Exp(ev - pev)
      inv_init   == FDiv(Scale, Exp(initial_prior_var))
      sq         == FMul(m - pm, m - pm)
      mean_term  == IF lamb # Scale
                    THEN FMul(sq, FMul(lamb, Max(Exp(0 - pev) - inv_init, 0))
                                    + inv_init)
                    ELSE FMul(sq, Exp(0 - pev))
      det_term   == pev - ev
  IN  trace_term + mean_term + det_term - Scale

\* compute_kl on tensors that broadcast: with sum set the 0-dim tensor
\* 0.5 * torch.sum(...), otherwise the element-wise tensor 0.5 * (...)
compute_kl(mean_, exp_var, prior_mean, prior_exp_var, sum, lamb, initial_prior_var) ==
  LET n == BroadcastLen(<<Len(mean_), Len(exp_var), Len(prior_mean), Len(prior_exp_var)>>)
      inner == [j \in 1..n |->
                  ComputeKlInner(At(mean_, j), At(exp_var, j), At(prior_mean, j),
                                 At(prior_exp_var, j), lamb, initial_prior_var)]
  IN  IF sum THEN << Half(SumSeq(inner)) >>
             ELSE [j \in 1..n |-> Half(inner[j])]

\* ------------------------------------------------------ kl_mixture_gauss
\* torch.sum(coff_a[i] * (torch.log(coff_a[i]) - torch.log(coff_b[i])))
CoefTerm(ca, cb) ==
  SumSeq([j \in 1..Max(Len(ca), Len(cb)) |->
            FMul(At(ca, j), Log(At(ca, j)) - Log(At(cb, j)))])

\* torch.sum(coff_a[i] * compute_kl(..., sum=False, lamb=lamb))
WeightedTerm(ca, kl) ==
  SumSeq([j \in 1..Max(Len(ca), Len(kl)) |-> FMul(At(ca, j), At(kl, j))])

\* One accumulation into kl: which statement of the loop body made it, for
\* which component index, and the term added.
TermRec(kind, i, val) == [kind |-> kind, idx |-> i, val |-> val]

\* The loop body for Python index i (0-based) and the iterations after it,
\* up to index last; acc.val is kl, acc.log the accumulations so far.
RECURSIVE MixtureLoop(_, _, _, _, _, _, _, _, _, _)
MixtureLoop(mean_a, var_a, coff_a, mean_b, var_b, coff_b, lamb, i, last, acc) ==
  IF i > last THEN acc
  ELSE
    IF i >= Len(coff_a) \/ i >= Len(coff_b)
    THEN Outcome("IndexError", << >>, acc.rng, acc.log)
    ELSE IF ~Broadcastable(coff_a[i + 1], coff_b[i + 1])
    THEN Outcome("RuntimeError", << >>, acc.rng, acc.log)
    ELSE
      LET t1 == CoefTerm(coff_a[i + 1], coff_b[i + 1])
          l1 == Append(acc.log, TermRec("coef", i, t1))
      IN  IF i >= Len(mean_a) \/ i >= Len(var_a) \/ i >= Len(mean_b)
               \/ i >= Len(var_b)
          THEN Outcome("IndexError", << >>, acc.rng, l1)
          ELSE IF ~BroadcastAll(<<Len(mean_a[i + 1]), Len(var_a[i + 1]),
                                  Len(mean_b[i + 1]), Len(var_b[i + 1]),
                                  Len(coff_a[i + 1])>>)
          THEN Outcome("RuntimeError", << >>, acc.rng, l1)
          ELSE
            LET kl_i == compute_kl(mean_a[i + 1], var_a[i + 1], mean_b[i + 1],
                                   var_b[i + 1], FALSE, lamb, 0)
                t2 == WeightedTerm(coff_a[i + 1], kl_i)
            IN  MixtureLoop(mean_a, var_a, coff_a, mean_b, var_b, coff_b,
                            lamb, i + 1, last,
                            Outcome("none", acc.val + t1 + t2, acc.rng,
                                    Append(l1, TermRec("kl", i, t2))))

\* a variant whose loop starts at the second component
kl_mixture_gauss_skip_first(distribution_a, distribution_b, gauss_mixture, lamb, rng) ==
  MixtureLoop(distribution_a[1], distribution_a[2], distribution_a[3],
              distribution_b[1], distribution_b[2], distribution_b[3],
              lamb, 1, gauss_mixture - 1, Outcome("none", 0, rng, << >>))

\* kl = 0; for i in range(gauss_mixture): kl += ...; kl += ...; return kl
\* A distribution is <<mean, variance, coefficient>>, each a list holding one
\* tensor per component.
kl_mixture_gauss(distribution_a, distribution_b, gauss_mixture, lamb, rng) ==
  MixtureLoop(distribution_a[1], distribution_a[2], distribution_a[3],
              distribution_b[1], distribution_b[2], distribution_b[3],
              lamb, 0, gauss_mixture - 1, Outcome("none", 0, rng, << >>))

\* ------------------------------------------------ hyperparameter configs
\* a variant that appends the two imported lists in the other order
ZenkeConditionsSwapped(own, base, bbb) == (own \o bbb) \o base

\* conditions = conditions + _BASE_CONDITIONS + _BBB_CONDITIONS  (Zenke)
ZenkeConditions(own, base, bbb) == (own \o base) \o bbb
\* conditions = conditions + _BASE_CONDITIONS + _SSGE_CONDITIONS (GMM)
GmmConditions(own, base, ssge) == (own \o base) \o ssge

\* ================================================================ state
VARIABLES
  mean,        \* a list of tensors a caller holds (means)
  rho,         \* a second list of tensors a caller holds (encoded variances)
  rng,         \* [gen |-> passed generator, glob |-> global default generator]
  op,          \* the function called last ("init" before any call)
  args,        \* the remaining arguments of that call
  pre,         \* rng as it was when that call started
  ret,         \* [exc, val]: the exception raised or "none", the value returned
  log,         \* the random draws of that call (for kl_mixture_gauss: the
               \* terms added to kl), in order
  base,        \* imported list _BASE_CONDITIONS
  extra,       \* imported list _BBB_CONDITIONS / _SSGE_CONDITIONS
  conditions   \* the config module's `conditions` attribute

vars == <<mean, rho, rng, op, args, pre, ret, log, base, extra, conditions>>

\* ---------------------------------------------------------- input sets
Generators == {"None", "gen"}
Taus == {5, 10}
\* tensor shapes: one element (which broadcasts) and two elements
Shapes == {1, 2}

Const(n, v) == [j \in 1..n |-> v]

\* lists of at most MaxLen tensors of any shapes; the elements of the
\* tensor at (1-based) position k are v for odd k and -v for even k
ListsOf(v) ==
  UNION {{[k \in 1..n |-> Const(shape[k], IF k % 2 = 1 THEN v ELSE 0 - v)] :
            shape \in [1..n -> Shapes]} : n \in 0..MaxLen}

\* where the passed generator stands before the call: at the start of the
\* stream, or at its last position, so that the draws wrap around
StartPositions == {0, GenPeriod - 1}

NoCall == [exc |-> "none", val |-> << >>]

\* The state a call leaves behind.  Every function is applied once, to the
\* lists the caller holds and from the generator positions of the initial
\* state.
Called(name, a, o) ==
  /\ op = "init"
  /\ op' = name
  /\ args' = a
  /\ pre' = rng
  /\ rng' = o.rng
  /\ ret' = [exc |-> o.exc, val |-> o.val]
  /\ log' = o.log
  /\ UNCHANGED <<mean, rho, base, extra, conditions>>

Init ==
  /\ mean \in ListsOf(5)
  /\ rho \in ListsOf(-10)
  /\ rng \in {[gen |-> g, glob |-> (g + 1) % GenPeriod] : g \in StartPositions}
  /\ op = "init"
  /\ args = << >>
  /\ pre = rng
  /\ ret = NoCall
  /\ log = << >>
  /\ base = << >>
  /\ extra = << >>
  /\ conditions = << >>

\* --------------------------------------------------------------- calls
CallDecodeAndSample ==
  \E logvar_enc \in BOOLEAN, is_radial \in BOOLEAN, generator \in Generators :
    Called("decode_and_sample_diag_gauss",
           [logvar_enc |-> logvar_enc, is_radial |-> is_radial,
            generator |-> generator],
           decode_and_sample_diag_gauss(mean, rho, logvar_enc, generator,
                                        is_radial, rng))

CallDecode ==
  \E logvar_enc \in BOOLEAN, return_var \in BOOLEAN, return_logvar \in BOOLEAN :
    Called("decode_diag_gauss",
           [logvar_enc |-> logvar_enc, return_var |-> return_var,
            return_logvar |-> return_logvar],
           Outcome("none",
                   decode_diag_gauss(rho, logvar_enc, return_var, return_logvar),
                   rng, << >>))

\* std = decode_diag_gauss(rho, logvar_enc)
CallSample ==
  \E logvar_enc \in BOOLEAN, is_radial \in BOOLEAN, generator \in Generators :
    LET std == decode_diag_gauss(rho, logvar_enc, FALSE, FALSE).list
    IN  Called("sample_diag_gauss",
               [std |-> std, logvar_enc |-> logvar_enc, is_radial |-> is_radial,
                generator |-> generator],
               sample_diag_gauss(mean, std, generator, is_radial, rng))

\* the prior p_b: nb tensors, tensor k shaped like mean[k], mean 0 and one
\* standard deviation for all entries; nb is len(mean) or one off it
PriorStds == {10, 20}
PriorLens == {n \in {Len(mean) - 1, Len(mean), Len(mean) + 1} : n >= 0}
PriorList(nb, v) ==
  [k \in 1..nb |-> Const(IF k <= Len(mean) THEN Len(mean[k]) ELSE 1, v)]

\* std_a = decode_diag_gauss(rho, logvar_enc=True)
CallKlRadial ==
  \E nb \in PriorLens, sb \in PriorStds, ce_sample_size \in 0..MaxCe,
     generator \in Generators :
    LET std_a == decode_diag_gauss(rho, TRUE, FALSE, FALSE).list
        mean_b == PriorList(nb, 0)
        std_b == PriorList(nb, sb)
    IN  Called("kl_radial_bnn_with_diag_gauss",
               [std_a |-> std_a, mean_b |-> mean_b, std_b |-> std_b,
                ce_sample_size |-> ce_sample_size, generator |-> generator],
               kl_radial_bnn_with_diag_gauss(mean, std_a, mean_b, std_b,
                                             ce_sample_size, generator, rng))

\* the caller packs the list as the docstring describes it: means first,
\* log-variances second
CallSampleFromHnet ==
  Called("sample_diag_gaus_from_hnet", [hnet_outputs |-> mean \o rho],
         sample_diag_gaus_from_hnet(mean \o rho, rng))

CallExtractMeanStd ==
  \E return_logvar \in BOOLEAN :
    Called("extract_mean_std",
           [hnet_outputs |-> mean \o rho, return_logvar |-> return_logvar],
           extract_mean_std(mean \o rho, return_logvar, rng))

CallSampleGumbelSoftmax ==
  \E k \in 1..Len(mean), tau \in Taus :
    Called("sample_gumbel_softmax", [x |-> mean[k], tau |-> tau],
           sample_gumbel_softmax(mean[k], tau, rng))

\* The mixture samplers take stacked tensors: mean, rho and coef hold one
\* component per entry, all of d_in * d_out elements; coef is rho here.
MaxK == 1
Stacked == UniformShape(mean) /\ UniformShape(rho)
             /\ (mean # << >> /\ rho # << >> => Len(mean[1]) = Len(rho[1]))
Dim == IF mean = << >> THEN 1 ELSE Len(mean[1])

CallSampleGauss ==
  /\ Stacked
  /\ \E logvar_enc \in BOOLEAN, K \in 1..MaxK, is_bias \in BOOLEAN,
        generator \in Generators, is_radial \in BOOLEAN :
       Called("sample_gauss",
              [logvar_enc |-> logvar_enc, K |-> K, is_bias |-> is_bias,
               generator |-> generator, is_radial |-> is_radial],
              sample_gauss(mean, rho, logvar_enc, rho, Len(mean), K, Dim,
                           is_bias, generator, is_radial, rng))

CallSampleGumbel ==
  /\ Stacked
  /\ \E tau \in Taus, K \in 1..MaxK, generator \in Generators :
       Called("sample_gumbel",
              [tau |-> tau, K |-> K, generator |-> generator],
              sample_gumbel(mean, rho, TRUE, rho, tau, Len(mean), K, Dim,
                            FALSE, generator, FALSE, rng))

CallSampleFromGumbelSoftmaxTrick ==
  /\ Stacked
  /\ \E tau \in Taus, K \in 1..MaxK, is_bias \in BOOLEAN,
        generator \in Generators :
       Called("sample_from_gumbel_softmax_trick",
              [tau |-> tau, K |-> K, is_bias |-> is_bias,
               generator |-> generator],
              sample_from_gumbel_softmax_trick(mean, rho, rho, tau, Len(mean),
                                               K, Dim, is_bias, TRUE,
                                               generator, FALSE, rng))

\* The two mixtures: distribution_a holds the caller's lists (mean, rho as
\* log-variances, coefficients 0.5), distribution_b a prior of nb components
\* (mean 0, one log-variance, coefficients 0.2); gauss_mixture is passed
\* independently of how many components the lists hold.
Lambs == {10, 5}
PriorLogvars == {0, -10}
CallKlMixtureGauss ==
  \E nb \in PriorLens, lvb \in PriorLogvars, gauss_mixture \in 0..MaxLen,
     lamb \in Lambs :
    LET distribution_a == <<mean, rho, PriorList(Len(mean), 5)>>
        distribution_b == <<PriorList(nb, 0), PriorList(nb, lvb), PriorList(nb, 2)>>
    IN  Called("kl_mixture_gauss",
               [distribution_a |-> distribution_a,
                distribution_b |-> distribution_b,
                gauss_mixture |-> gauss_mixture, lamb |-> lamb],
               kl_mixture_gauss(distribution_a, distribution_b, gauss_mixture,
                                lamb, rng))

\* The two Gaussians of square_wasserstein_2: the tensors of the first are
\* shaped like those of mean, the tensors of the second like those of rho;
\* all entries of a list hold one floating-point number.  The means are 0.5
\* and 0 or 0.5, the log-variances -1, -0.9375 or 0.
MeansF == {0, 32}
LogvarsF == {-64, -60, 0}
Shaped(l, v) == [k \in 1..Len(l) |-> Const(Len(l[k]), v)]

CallSquareWasserstein2 ==
  \E mb \in MeansF, lva \in LogvarsF, lvb \in LogvarsF :
    LET mean_a == Shaped(mean, 32)
        logvar_a == Shaped(mean, lva)
        mean_b == Shaped(rho, mb)
        logvar_b == Shaped(rho, lvb)
    IN  Called("square_wasserstein_2",
               [mean_a |-> mean_a, logvar_a |-> logvar_a,
                mean_b |-> mean_b, logvar_b |-> logvar_b],
               square_wasserstein_2(mean_a, logvar_a, mean_b, logvar_b, rng))

Next ==
  \/ CallSquareWasserstein2
  \/ CallDecodeAndSample
  \/ CallDecode
  \/ CallSample
  \/ CallKlRadial
  \/ CallSampleFromHnet
  \/ CallExtractMeanStd
  \/ CallSampleGumbelSoftmax
  \/ CallSampleGauss
  \/ CallSampleGumbel
  \/ CallSampleFromGumbelSoftmaxTrick
  \/ CallKlMixtureGauss

Spec == Init /\ [][Next]_vars

\* ------------------------------------------------- the config modules
\* A condition tuple is named by a number; the imported lists and the
\* module's own list (empty in the files as shipped, where users are asked
\* to add theirs) hold at most MaxLen of them.
CondIds == {1, 2}
CondLists == UNION {[1..n -> CondIds] : n \in 0..MaxLen}

InitConfig ==
  /\ mean = << >> /\ rho = << >>
  /\ rng = [gen |-> 0, glob |-> 0]
  /\ op = "init"
  /\ args = << >>
  /\ pre = [gen |-> 0, glob |-> 0]
  /\ ret = NoCall
  /\ log = << >>
  /\ base \in CondLists
  /\ extra \in CondLists
  /\ conditions \in CondLists

\* executing hpsearch_config_zenke_bbb_mixture.py line 191
ImportZenke ==
  /\ op = "init"
  /\ op' = "hpsearch_config_zenke_bbb_mixture"
  /\ args' = [own |-> conditions, base |-> base, extra |-> extra]
  /\ conditions' = ZenkeConditions(conditions, base, extra)
  /\ UNCHANGED <<mean, rho, rng, pre, ret, log, base, extra>>

\* executing hpsearch_config_gmm_ssge.py lines 207-208
ImportGmm ==
  /\ op = "init"
  /\ op' = "hpsearch_config_gmm_ssge"
  /\ args' = [own |-> conditions, base |-> base, extra |-> extra]
  /\ conditions' = GmmConditions(conditions, base, extra)
  /\ UNCHANGED <<mean, rho, rng, pre, ret, log, base, extra>>

NextConfig == ImportZenke \/ ImportGmm

SpecConfig == InitConfig /\ [][NextConfig]_vars

\* ================================================================ claims
SameShapes(a, b) ==
  Len(a) = Len(b) /\ \A k \in 1..Len(a) : Len(a[k]) = Len(b[k])

StdOf(logvar_enc, t) == IF logvar_enc THEN ExpHalf(t) ELSE Softplus(t)

\* --------------------------------------------------------------------- C1
\* C1: sample_diag_gaus_from_hnet and extract_mean_std read the first n
\* entries of a list hnet_outputs of length 2n as the means and the last n
\* entries as the log-variances.
C1_FirstHalfIsMean ==
  /\ (op = "extract_mean_std" /\ ret.exc = "none") =>
       LET h == args.hnet_outputs
           n == Len(h) \div 2
       IN  /\ ret.val[1] = [k \in 1..n |-> h[k]]
           /\ ret.val[2] = [k \in 1..n |-> ExpHalf(h[n + k])]
           /\ args.return_logvar => ret.val[3] = [k \in 1..n |-> h[n + k]]
  /\ (op = "sample_diag_gaus_from_hnet" /\ ret.exc = "none") =>
       LET h == args.hnet_outputs
           n == Len(h) \div 2
       IN  \A k \in 1..n :
             ret.val[k] = TAdd(h[k], TMul(log[k].vals, ExpHalf(h[n + k])))

\* --------------------------------------------------------------------- C2
\* what sample_diag_gauss(mean, decode_diag_gauss(rho, logvar_enc), generator,
\* is_radial) does from the generator positions the recorded call started at
ViaDecodeThenSample ==
  sample_diag_gauss(mean,
                    decode_diag_gauss(rho, args.logvar_enc, FALSE, FALSE).list,
                    args.generator, args.is_radial, pre)

SameAsDecodeThenSample ==
  /\ ret.exc = ViaDecodeThenSample.exc
  /\ ret.val = ViaDecodeThenSample.val
  /\ log = ViaDecodeThenSample.log
  /\ rng = ViaDecodeThenSample.rng

\* C2 (as claimed): for all lists mean and rho of equal length,
\* decode_and_sample_diag_gauss returns the samples of sample_diag_gauss on
\* the decoded rho, with the same random draws in the same order.
C2_SameForEqualLength ==
  (op = "decode_and_sample_diag_gauss" /\ Len(mean) = Len(rho))
    => SameAsDecodeThenSample

\* C2 (amended): the two agree, draw for draw, for all lists mean and rho of
\* equal length whose tensors mean[i] and rho[i] have the same shape.
C2_SameForEqualShapes ==
  (op = "decode_and_sample_diag_gauss" /\ SameShapes(mean, rho))
    => SameAsDecodeThenSample

C2_Witness ==
  /\ op = "decode_and_sample_diag_gauss"
  /\ SameShapes(mean, rho)
  /\ Len(mean) = 2 /\ Len(mean[2]) = 2
  /\ args.is_radial /\ args.logvar_enc
  /\ ret.exc = "none" /\ Len(ret.val) = 2

\* --------------------------------------------------------------------- C3
\* the numbers of all draws of a call, in the order they were drawn
RECURSIVE DrawnNumbers(_)
DrawnNumbers(l) ==
  IF l = << >> THEN << >> ELSE Head(l).vals \o DrawnNumbers(Tail(l))

\* the standard deviation the recorded call used for tensor k (1-based)
StdUsed(k) ==
  IF op = "sample_diag_gauss" THEN args.std[k]
  ELSE StdOf(args.logvar_enc, rho[k])

\* the shape of eps for tensor k: that of std in decode_and_sample_diag_gauss,
\* that of the mean in sample_diag_gauss
EpsShape(k) ==
  IF op = "sample_diag_gauss" THEN Len(mean[k]) ELSE Len(StdUsed(k))

\* C3: for a list of k tensors a returning call with is_radial makes exactly
\* 2k draws from the generator it uses, eps_0, r_0, ..., eps_{k-1}, r_{k-1},
\* r being a single number, and sample i is mean_i + std_i * r_i * eps_i /
\* norm(eps_i); without is_radial it makes exactly the k draws eps_0 ..
\* eps_{k-1} and sample i is mean_i + eps_i * std_i.
C3_DrawsPerTensor ==
  (op \in {"decode_and_sample_diag_gauss", "sample_diag_gauss"}
     /\ ret.exc = "none") =>
    LET k == Len(mean)
        p0 == IF args.generator = "None" THEN pre.glob ELSE pre.gen
        flat == DrawnNumbers(log)
    IN  /\ Len(ret.val) = k
        /\ \A j \in 1..Len(log) : log[j].src = Src(args.generator)
        /\ \A j \in 1..Len(flat) : flat[j] = NormalAt((p0 + j - 1) % GenPeriod)
        /\ IF args.is_radial
           THEN /\ Len(log) = 2 * k
                /\ \A i \in 0..(k - 1) :
                     LET e == log[2 * i + 1]
                         r == log[2 * i + 2]
                     IN  /\ e.kind = "eps" /\ e.idx = i
                         /\ Len(e.vals) = EpsShape(i + 1)
                         /\ r.kind = "r" /\ r.idx = i /\ Len(r.vals) = 1
                         /\ ret.val[i + 1] =
                              TAdd(mean[i + 1],
                                   TDivS(TMul(TMulS(StdUsed(i + 1), r.vals[1]),
                                              e.vals),
                                         Norm(e.vals)))
           ELSE /\ Len(log) = k
                /\ \A i \in 0..(k - 1) :
                     LET e == log[i + 1]
                     IN  /\ e.kind = "eps" /\ e.idx = i
                         /\ Len(e.vals) = EpsShape(i + 1)
                         /\ ret.val[i + 1] =
                              TAdd(mean[i + 1], TMul(e.vals, StdUsed(i + 1)))

C3_Witness ==
  /\ op = "sample_diag_gauss"
  /\ args.is_radial /\ args.generator = "gen"
  /\ Len(mean) = 2 /\ Len(mean[1]) = 2
  /\ ret.exc = "none" /\ Len(log) = 4

\* --------------------------------------------------------------------- C4
\* the recorded call again, from the same position of the passed generator
\* but with the global default generator at position g
Replay(g) ==
  LET r0 == [gen |-> pre.gen, glob |-> g]
  IN  CASE op = "decode_and_sample_diag_gauss" ->
             decode_and_sample_diag_gauss(mean, rho, args.logvar_enc,
                                          args.generator, args.is_radial, r0)
        [] op = "sample_diag_gauss" ->
             sample_diag_gauss(mean, args.std, args.generator, args.is_radial, r0)
        [] op = "kl_radial_bnn_with_diag_gauss" ->
             kl_radial_bnn_with_diag_gauss(mean, args.std_a, args.mean_b,
                                           args.std_b, args.ce_sample_size,
                                           args.generator, r0)

\* C4: when a generator is passed to decode_and_sample_diag_gauss,
\* sample_diag_gauss or kl_radial_bnn_with_diag_gauss, every draw comes from
\* it: the call leaves the global generator where it was, and from equal
\* arguments and an equal generator position it returns the same result and
\* leaves the generator at the same position, wherever the global generator
\* stands.
C4_Reproducible ==
  (op \in {"decode_and_sample_diag_gauss", "sample_diag_gauss",
           "kl_radial_bnn_with_diag_gauss"}
     /\ args.generator = "gen") =>
    /\ rng.glob = pre.glob
    /\ \A g \in 0..(GenPeriod - 1) :
         Replay(g) = Outcome(ret.exc, ret.val, [gen |-> rng.gen, glob |-> g], log)

C4_Witness ==
  /\ op = "kl_radial_bnn_with_diag_gauss"
  /\ args.generator = "gen"
  /\ ret.exc = "none"
  /\ Len(log) >= 4
  /\ rng.gen # pre.gen

\* --------------------------------------------------------------------- C5
\* C5: every function of prob_utils.py is stateless: a call, given its
\* generator argument where it has one, leaves all global state as it was
\* (so its result can depend on its arguments only) and leaves the lists it
\* was passed as they were.  Stated for the functions the claim names.
C5_Stateless ==
  (op \in {"sample_gumbel_softmax", "sample_gauss", "sample_gumbel",
           "sample_from_gumbel_softmax_trick",
           "kl_radial_bnn_with_diag_gauss"}
     /\ ("generator" \in DOMAIN args => args.generator = "gen")) =>
    rng.glob = pre.glob

\* --------------------------------------------------------------------- C6
\* C6: after either config module has run, `conditions` is the module's own
\* conditions in their order, then all of the imported base conditions in
\* their order, then all of the imported _BBB_CONDITIONS / _SSGE_CONDITIONS
\* in their order: its length is the sum of the three lengths, and the
\* imported lists are what they were.
C6_Concatenation ==
  (op \in {"hpsearch_config_zenke_bbb_mixture", "hpsearch_config_gmm_ssge"}) =>
    LET a == Len(args.own)
        b == Len(args.base)
        c == Len(args.extra)
    IN  /\ Len(conditions) = a + b + c
        /\ \A i \in 1..a : conditions[i] = args.own[i]
        /\ \A i \in 1..b : conditions[a + i] = args.base[i]
        /\ \A i \in 1..c : conditions[a + b + i] = args.extra[i]
        /\ base = args.base
        /\ extra = args.extra

C6_Witness ==
  /\ op = "hpsearch_config_zenke_bbb_mixture"
  /\ Len(args.own) = 1 /\ Len(base) = 2 /\ Len(extra) = 2
  /\ base # extra
  /\ Len(conditions) = 5

\* --------------------------------------------------------------------- C7
\* the lists decode_diag_gauss is to return, entry k from rho[k] alone
StdList(logvar_enc) == [k \in 1..Len(rho) |-> StdOf(logvar_enc, rho[k])]
VarList(logvar_enc) == [k \in 1..Len(rho) |-> Square(StdOf(logvar_enc, rho[k]))]
LogvarList(logvar_enc) ==
  [k \in 1..Len(rho) |->
     IF logvar_enc THEN rho[k] ELSE TwoLog(Softplus(rho[k]))]

ExpectedItems ==
  <<StdList(args.logvar_enc)>>
    \o (IF args.return_var THEN <<VarList(args.logvar_enc)>> ELSE << >>)
    \o (IF args.return_logvar THEN <<LogvarList(args.logvar_enc)>> ELSE << >>)

C8_ExtractShape ==
  (op = "extract_mean_std" /\ ret.exc = "none") =>
    LET h == args.hnet_outputs
        n == Len(h) \div 2
    IN  /\ Len(ret.val) = IF args.return_logvar THEN 3 ELSE 2
        /\ \A t \in 1..Len(ret.val) : Len(ret.val[t]) = n
        /\ \E lv \in {SubSeq(h, 1, n), SubSeq(h, n + 1, 2 * n)} :
             /\ ret.val[1] \o lv = h \/ lv \o ret.val[1] = h
             /\ \A i \in 1..n : ret.val[2][i] = ExpHalf(lv[i])
             /\ args.return_logvar => ret.val[3] = lv

C8_Witness ==
  /\ op = "extract_mean_std"
  /\ args.return_logvar
  /\ ret.exc = "none"
  /\ Len(args.hnet_outputs) = 4
  /\ Len(ret.val) = 3

\* --------------------------------------------------------------------- C9
\* C9: decode_and_sample_diag_gauss fails with an assertion error exactly
\* when len(mean) # len(rho), and then before any draw (no generator moves)
\* and without a sample; two empty lists give the empty list.
C9_LengthAssertion ==
  (op = "decode_and_sample_diag_gauss") =>
    /\ Len(mean) # Len(rho) =>
         /\ ret.exc = "AssertionError"
         /\ ret.val = << >>
         /\ log = << >>
         /\ rng = pre
    /\ Len(mean) = Len(rho) => ret.exc # "AssertionError"
    /\ (mean = << >> /\ rho = << >>) =>
         (ret.exc = "none" /\ ret.val = << >> /\ log = << >>)

C9_Witness ==
  /\ op = "decode_and_sample_diag_gauss"
  /\ Len(mean) = 1 /\ Len(rho) = 2
  /\ ret.exc = "AssertionError"

\* -------------------------------------------------------------------- C10
\* tensor i of sample n of the recorded call (both 1-based), rebuilt from
\* the draws of the call: mean_a[i] + std_a[i] * r * eps / norm(eps)
KlSample(n, i) ==
  LET at == 2 * ((n - 1) * Len(mean) + (i - 1))
      e == log[at + 1].vals
      r == log[at + 2].vals[1]
  IN  TAdd(mean[i], TDivS(TMul(TMulS(args.std_a[i], r), e), Norm(e)))

\* minus the sum of log std_a over all entries of all tensors of std_a
KlEntropyTerm ==
  0 - SumSeq([i \in 1..Len(args.std_a) |->
                SumSeq([j \in 1..Len(args.std_a[i]) |-> Log(args.std_a[i][j])])])

\* the sum over all samples and over the tensors 1..k of the log-probability
\* of the sample tensor under Normal(mean_b[i], std_b[i])
KlLogProbSum(k) ==
  SumSeq([n \in 1..args.ce_sample_size |->
            SumSeq([i \in 1..k |->
                      LogProbSum(KlSample(n, i), args.mean_b[i], args.std_b[i])])])

KlReturns ==
  op = "kl_radial_bnn_with_diag_gauss" /\ ret.exc = "none"
    /\ args.ce_sample_size >= 1

\* C10 (as claimed): a returning call with ce_sample_size >= 1 has drawn
\* ce_sample_size radial samples over all tensors of mean_a, every tensor of
\* mean_a has its term in the cross-entropy, and the result is the entropy
\* term minus 1/ce_sample_size times the sum of the log-probabilities over
\* all samples and all tensors of mean_a.
C10_EveryTensorInBothTerms ==
  KlReturns =>
    /\ Len(log) = 2 * args.ce_sample_size * Len(mean)
    /\ Len(args.mean_b) >= Len(mean)
    /\ ret.val = KlEntropyTerm
                   - (KlLogProbSum(Len(mean)) \div args.ce_sample_size)

\* C10 (amended): the same, provided mean_b and std_b have as many tensors
\* as mean_a.
C10_WithEqualLengths ==
  (KlReturns /\ Len(args.mean_b) = Len(mean)) =>
    /\ Len(log) = 2 * args.ce_sample_size * Len(mean)
    /\ ret.val = KlEntropyTerm
                   - (KlLogProbSum(Len(mean)) \div args.ce_sample_size)

C10_Witness ==
  /\ KlReturns
  /\ args.ce_sample_size = 2
  /\ Len(mean) = 2 /\ Len(args.mean_b) = 2
  /\ Len(log) = 8

\* -------------------------------------------------------------------- C11
\* the six tensors of component i (1-based) of the recorded call
MixCoefTerm(i) ==
  CoefTerm(args.distribution_a[3][i], args.distribution_b[3][i])
MixWeightedTerm(i) ==
  WeightedTerm(args.distribution_a[3][i],
               compute_kl(args.distribution_a[1][i], args.distribution_a[2][i],
                          args.distribution_b[1][i], args.distribution_b[2][i],
                          FALSE, args.lamb, 0))

\* the least number of entries in the six lists of the two distributions
MixComponents ==
  LET lens == {Len(args.distribution_a[k]) : k \in 1..3}
                \cup {Len(args.distribution_b[k]) : k \in 1..3}
  IN  CHOOSE n \in lens : \A m \in lens : n <= m

\* C11: kl_mixture_gauss takes gauss_mixture as the number of components.  A
\* call that returns has added to kl, for i = 0, 1, ..., gauss_mixture - 1 in
\* this order and each i once, first the coefficient term
\* sum(coff_a[i] * (log coff_a[i] - log coff_b[i])) and then the weighted
\* term sum(coff_a[i] * compute_kl(mean_a[i], var_a[i], mean_b[i], var_b[i],
\* sum=False, lamb=lamb)), and nothing else; it returns their total.  So each
\* of the gauss_mixture components of both distributions contributes, and
\* with gauss_mixture = 0 the result is 0.
C11_EveryComponentOnce ==
  (op = "kl_mixture_gauss") =>
    /\ ret.exc = "none" =>
         /\ args.gauss_mixture <= MixComponents
         /\ Len(log) = 2 * args.gauss_mixture
         /\ \A i \in 1..args.gauss_mixture :
              /\ log[2 * i - 1] = TermRec("coef", i - 1, MixCoefTerm(i))
              /\ log[2 * i] = TermRec("kl", i - 1, MixWeightedTerm(i))
         /\ ret.val = SumSeq([i \in 1..args.gauss_mixture |->
                                MixCoefTerm(i) + MixWeightedTerm(i)])
    /\ args.gauss_mixture <= MixComponents => ret.exc = "none"
    /\ args.gauss_mixture = 0 => ret.val = 0

C11_Witness ==
  /\ op = "kl_mixture_gauss"
  /\ args.gauss_mixture = 2
  /\ args.lamb # Scale
  /\ ret.exc = "none"
  /\ Len(log) = 4
  /\ log[1].val # 0 /\ log[2].val # 0 /\ log[4].val # log[2].val
  /\ ret.val # 0

\* -------------------------------------------------------------------- C12
SwReturns == op = "square_wasserstein_2" /\ ret.exc = "none"

\* the call with the two distributions exchanged ends the same way and with
\* the same value
SwSymmetric ==
  (op = "square_wasserstein_2") =>
    square_wasserstein_2(args.mean_b, args.logvar_b, args.mean_a,
                         args.logvar_a, pre)
      = Outcome(ret.exc, ret.val, rng, log)

\* a returned value is never negative
SwNonNegative == SwReturns => ret.val >= 0

\* on two equal distributions the returned value is 0
SwZeroOnEqual ==
  (SwReturns /\ args.mean_a = args.mean_b /\ args.logvar_a = args.logvar_b) =>
    ret.val = 0

\* C12: square_wasserstein_2 is symmetric in its two distributions, a value
\* it returns is never negative, and on two equal distributions it returns 0.
C12_SymmetricNonNegativeZeroOnEqual ==
  SwSymmetric /\ SwNonNegative /\ SwZeroOnEqual

====
